---- MODULE Spec2Model ----
(***************************************************************************)
(* The n-dimensional hypercube renderer of src/modules/renderer.js, with   *)
(* the matrix and point helpers it calls (Matrix.init, Matrix.mul,          *)
(* Matrix.toPoint, Point.toMatrix) and the frozen configuration object      *)
(* Global of src/modules/global.js.                                         *)
(*                                                                         *)
(* JavaScript numbers are modelled as exact rationals <<n, d>> (d > 0, in   *)
(* lowest terms).  Angles are modelled on two exact scales on which         *)
(* Math.cos and Math.sin are rational: whole quarter turns (unit "Q") and   *)
(* whole multiples of alpha = atan(4/3) (unit "A", cos alpha = 3/5,         *)
(* sin alpha = 4/5).  Array keys produced by for...in are strings; they     *)
(* are modelled by the number they spell, compared as the decimal strings   *)
(* they are.                                                                *)
(***************************************************************************)
EXTENDS Integers, Sequences, FiniteSets, TLC

(* ------------------------------- bounds -------------------------------- *)

\* Largest configured Global.DIMENSIONS explored by the general specifications.
MaxDim == 4

\* Largest configured Global.SIZE.
MaxSize == 2

\* Largest clock reading (in model time units) of window.performance.now().
MaxTime == 2

\* Largest configured Global.ROTATION_OFFSET.
MaxOffset == 3

\* Largest configured Global.SPEED, in angle units per time unit.
MaxSpeed == 3

\* Largest number of rows of an argument of a direct call of Matrix.mul.
MaxRows == 2

\* Largest length of a row of such an argument.
MaxCols == 2

\* Largest window.innerWidth and window.innerHeight, in CSS pixels.
MaxWindow == 2

\* Largest window.devicePixelRatio.
MaxRatio == 2

\* Largest e for which a composed rotation with entries over 5^e is explored on
\* the alpha scale (squared norms must stay within TLC's integers).
AlphaPrecision == 3

(* ------------------------------ numbers -------------------------------- *)

Abs(x) == IF x < 0 THEN -x ELSE x

RECURSIVE GCD(_, _)
GCD(a, b) == IF b = 0 THEN a ELSE GCD(b, a % b)

\* The number n/d in lowest terms with a positive denominator.  A zero
\* denominator encodes the non-finite numbers of JavaScript: <<1, 0>> is
\* Infinity, <<-1, 0>> is -Infinity and <<0, 0>> is NaN.
Rat(n, d) ==
    IF d = 0 THEN <<IF n > 0 THEN 1 ELSE IF n < 0 THEN -1 ELSE 0, 0>>
    ELSE LET g == GCD(Abs(n), Abs(d))
             s == IF d < 0 THEN -1 ELSE 1
         IN  <<(s * n) \div g, (s * d) \div g>>

Int2Rat(n) == <<n, 1>>

NaN == <<0, 0>>

IsFinite(x) == x[2] # 0

\* x * y: Infinity * 0 and NaN * y are NaN.
RMul(x, y) == Rat(x[1] * y[1], x[2] * y[2])

\* x + y: Infinity + -Infinity and NaN + y are NaN.
RAdd(x, y) ==
    IF x[2] = 0 \/ y[2] = 0
    THEN IF x = NaN \/ y = NaN THEN NaN
         ELSE IF x[2] = 0 /\ y[2] = 0 THEN (IF x = y THEN x ELSE NaN)
         ELSE IF x[2] = 0 THEN x ELSE y
    ELSE LET g == GCD(x[2], y[2])
         IN  Rat(x[1] * (y[2] \div g) + y[1] * (x[2] \div g), (x[2] \div g) * y[2])

\* x / y: a finite non-zero x over 0 is an infinity, 0 / 0 is NaN.
RDiv(x, y) == RMul(x, Rat(y[2], y[1]))

RNeg(x) == <<-x[1], x[2]>>

RECURSIVE Pow(_, _)
Pow(b, e) == IF e = 0 THEN 1 ELSE b * Pow(b, e - 1)

\* The sequence s with every element computed (TLC keeps a function written
\* [k \in 1..n |-> e] unevaluated, and would compute e at every use).
Array(s) == SubSeq(s, 1, Len(s))

Range(s) == {s[n] : n \in 1..Len(s)}

RECURSIVE SumSeq(_)
SumSeq(s) == IF s = <<>> THEN 0 ELSE Head(s) + SumSeq(Tail(s))

RECURSIVE Flatten(_)
Flatten(ss) == IF ss = <<>> THEN <<>> ELSE Head(ss) \o Flatten(Tail(ss))

(* ------------------------------ strings -------------------------------- *)

\* Number.prototype.toString(2): the binary digits of i, most significant first.
RECURSIVE toString2(_)
toString2(i) ==
    IF i < 2 THEN <<IF i = 0 THEN "0" ELSE "1">>
    ELSE Append(toString2(i \div 2), IF i % 2 = 0 THEN "0" ELSE "1")

\* String.prototype.padStart(targetLength, 0): the pad 0 is coerced to "0".
padStart(str, targetLength) ==
    IF Len(str) >= targetLength THEN str
    ELSE Array([k \in 1..(targetLength - Len(str)) |-> "0"]) \o str

\* The decimal digits of an array key, as for...in spells it.
RECURSIVE toString10(_)
toString10(i) ==
    IF i < 10 THEN <<i>> ELSE Append(toString10(i \div 10), i % 10)

\* a < b for two strings of digits, as JavaScript compares strings: code unit by
\* code unit, a proper prefix being the smaller.
RECURSIVE StrLT(_, _)
StrLT(a, b) ==
    IF b = <<>> THEN FALSE
    ELSE IF a = <<>> THEN TRUE
    ELSE IF Head(a) # Head(b) THEN Head(a) < Head(b)
    ELSE StrLT(Tail(a), Tail(b))

\* i >= j for two array keys (strings) i and j.
KeyGE(i, j) == ~StrLT(toString10(i), toString10(j))

\* The keys of an array of length n in for...in order: "0", "1", ..., ascending.
Keys(arr) == Array([k \in 1..Len(arr) |-> k - 1])

\* arr[i] for a zero-based key i.
At(arr, i) == arr[i + 1]

(* ------------------------------- Matrix -------------------------------- *)

\* Matrix.init(rows, cols): rows x cols, filled with 0.
init(rows, cols) == Array([r \in 1..rows |-> Array([c \in 1..cols |-> Int2Rat(0)])])

\* The inner k-loop of Matrix.mul: product[i][j] += a[i][k] * b[k][j], k ascending.
RECURSIVE mulCell(_, _, _, _, _)
mulCell(a, b, i, j, k) ==
    IF k = 0 THEN Int2Rat(0)
    ELSE RAdd(mulCell(a, b, i, j, k - 1), RMul(a[i][k], b[k][j]))

\* Matrix.mul(a, b) on two shape-compatible matrices.
mul(a, b) ==
    Array([i \in 1..Len(a) |->
        Array([j \in 1..Len(b[1]) |-> mulCell(a, b, i, j, Len(a[1]))])])

\* row[k] used as a number, for a one-based k: past the end of the row it is
\* undefined, which arithmetic turns into NaN.
elementAt(row, k) == IF k <= Len(row) THEN row[k] ELSE NaN

\* The inner k-loop of Matrix.mul with product[i][j] = a[i][k] * b[k][j] in
\* place of +=.
mulCellAt_assigns(a, b, i, j, k) ==
    IF k = 0 THEN Int2Rat(0)
    ELSE RMul(elementAt(a[i], k), elementAt(b[k], j))

\* The inner k-loop of Matrix.mul on arrays whose rows may differ in length.
RECURSIVE mulCellAt(_, _, _, _, _)
mulCellAt(a, b, i, j, k) ==
    IF k = 0 THEN Int2Rat(0)
    ELSE RAdd(mulCellAt(a, b, i, j, k - 1),
              RMul(elementAt(a[i], k), elementAt(b[k], j)))

\* A call Matrix.mul(a, b) on any two arrays of arrays (lines 18-33): what it
\* throws ("none" when it returns) and the product it returns.  a[0].length
\* and b[0].length throw a TypeError when a or b is empty (lines 19-20); a
\* zero count throws at line 22, aCols !== bRows at line 24; the lengths of
\* the other rows are never looked at.
mulCall(a, b) ==
    IF Len(a) = 0 \/ Len(b) = 0 THEN [threw |-> "TypeError", value |-> <<>>]
    ELSE LET aRows == Len(a)
             aCols == Len(a[1])
             bRows == Len(b)
             bCols == Len(b[1])
         IN  IF aCols = 0 \/ aRows = 0 \/ bCols = 0 \/ bRows = 0
             THEN [threw |-> "Error", value |-> <<>>]
             ELSE IF aCols # bRows THEN [threw |-> "Error", value |-> <<>>]
             ELSE [threw |-> "none",
                   value |-> Array([i \in 1..aRows |->
                                 Array([j \in 1..bCols |->
                                     mulCellAt(a, b, i, j, aCols)])])]

\* Matrix.toPoint(matrix): the first column.
toPoint(matrix) == Array([r \in 1..Len(matrix) |-> matrix[r][1]])

\* Point.toMatrix(point): the point as a column.
toMatrix(point) == Array([r \in 1..Len(point) |-> <<point[r]>>])

(* ------------------------------ vertices ------------------------------- *)

\* cubePointsGenerator without the padStart of line 21.
cubePointsGenerator_noPad(dimension, size) ==
    LET end == Pow(2, dimension)
        point(i) ==
            LET bits == toString2(i)
            IN  Array([k \in 1..Len(bits) |->
                    Rat((IF bits[k] = "0" THEN -1 ELSE 1) * size, 2)])
    IN  Array([n \in 1..end |-> point(n - 1)])

\* The number of i = 0, 1, ... with i < 2 ** dimension (lines 18-19): for a
\* negative dimension 2 ** dimension lies between 0 and 1.
loopEnd(dimension) == IF dimension >= 0 THEN Pow(2, dimension) ELSE 1

\* end.toString(2).length (line 21): for a negative dimension end.toString(2)
\* is "0." followed by -dimension digits.
endStringLength(dimension) ==
    IF dimension >= 0 THEN Len(toString2(Pow(2, dimension))) ELSE 2 - dimension

\* cubePointsGenerator(dimension, size), materialised by Array.from.
cubePointsGenerator(dimension, size) ==
    LET end == loopEnd(dimension)
        binary(i) == padStart(toString2(i), endStringLength(dimension) - 1)
        point(i) ==
            LET bits == binary(i)
            IN  Array([k \in 1..Len(bits) |->
                    Rat((IF bits[k] = "0" THEN -1 ELSE 1) * size, 2)])
    IN  Array([n \in 1..end |-> point(n - 1)])

(* ------------------------------ adjacency ------------------------------ *)

\* The number of coordinates a and b share (the map/reduce of edgeGenerator).
Shared(a, b) ==
    SumSeq(Array([ii \in 1..Len(a) |-> IF a[ii] = b[ii] THEN 1 ELSE 0]))

\* edgeGenerator counting the coordinates that differ instead of those shared.
edgeGenerator_countsDiffering(dimension, cubePoints) ==
    LET row(i) ==
            LET keep(j) ==
                    /\ i # j
                    /\ Len(At(cubePoints, i))
                           - Shared(At(cubePoints, i), At(cubePoints, j)) = dimension - 1
                js == SelectSeq(Keys(cubePoints), keep)
            IN  Array([n \in 1..Len(js) |-> <<i, js[n]>>])
    IN  Flatten(Array([n \in 1..Len(cubePoints) |-> row(n - 1)]))

\* edgeGenerator(dimension, cubePoints), materialised by Array.from: the pairs
\* of keys [i, j] in the order they are yielded.
edgeGenerator(dimension, cubePoints) ==
    LET row(i) ==
            LET keep(j) == /\ i # j
                           /\ Shared(At(cubePoints, i), At(cubePoints, j)) = dimension - 1
                js == SelectSeq(Keys(cubePoints), keep)
            IN  Array([n \in 1..Len(js) |-> <<i, js[n]>>])
    IN  Flatten(Array([n \in 1..Len(cubePoints) |-> row(n - 1)]))

\* The number of coordinates on which all the points of facePoints agree with
\* the first of them (lines 79-81).
SharedByAll(facePoints) ==
    SumSeq(Array([ii \in 1..Len(facePoints[1]) |->
        IF \A n \in 1..Len(facePoints) : facePoints[1][ii] = facePoints[n][ii]
        THEN 1 ELSE 0]))

\* The while loop of faceGenerator (lines 94-109) from the loop state
\* (faceIndices, rest).  rotated counts the rotations of rest made since the
\* last index was placed: when every candidate of rest has been refused the
\* loop state repeats, and the loop never ends.  The result is the ordered
\* faceIndices, or <<>> when the loop does not terminate.
\* faceGenerator without its ordering loop: the keys in loop order.
orderFace_unordered(dimension, cubePoints, faceIndices, rest, rotated) ==
    faceIndices \o rest

\* The ordering loop accepting the candidate that shares D-2 coordinates with
\* the last index placed (the opposite corner of the face) instead of D-1.
RECURSIVE orderFace_acceptsOpposite(_, _, _, _, _)
orderFace_acceptsOpposite(dimension, cubePoints, faceIndices, rest, rotated) ==
    IF Len(faceIndices) = 4 THEN faceIndices
    ELSE IF rotated = Len(rest) THEN <<>>
    ELSE LET lastIndex == faceIndices[Len(faceIndices)]
             matches == Shared(At(cubePoints, lastIndex), At(cubePoints, rest[1]))
         IN  IF matches # dimension - 2
             THEN orderFace_acceptsOpposite(dimension, cubePoints, faceIndices,
                            Append(Tail(rest), Head(rest)), rotated + 1)
             ELSE orderFace_acceptsOpposite(dimension, cubePoints,
                            Append(faceIndices, rest[1]), Tail(rest), 0)

RECURSIVE orderFace(_, _, _, _, _)
orderFace(dimension, cubePoints, faceIndices, rest, rotated) ==
    IF Len(faceIndices) = 4 THEN faceIndices
    ELSE IF rotated = Len(rest) THEN <<>>
    ELSE LET lastIndex == faceIndices[Len(faceIndices)]
             matches == Shared(At(cubePoints, lastIndex), At(cubePoints, rest[1]))
         IN  IF matches # dimension - 1
             THEN orderFace(dimension, cubePoints, faceIndices,
                            Append(Tail(rest), Head(rest)), rotated + 1)
             ELSE orderFace(dimension, cubePoints, Append(faceIndices, rest[1]),
                            Tail(rest), 0)

\* faceCandidates with line 74 written `if (k > l) continue`.
faceCandidates_allowsEqual(dimension, cubePoints) ==
    LET keys == Keys(cubePoints)
        P(x) == At(cubePoints, x)
        forL(i, j, k) ==
            LET keep(l) == /\ (k = l \/ ~KeyGE(k, l))
                           /\ SharedByAll(<<P(i), P(j), P(k), P(l)>>) = dimension - 2
                ls == SelectSeq(keys, keep)
            IN  Array([n \in 1..Len(ls) |-> <<i, j, k, ls[n]>>])
        forK(i, j) ==
            LET ks == SelectSeq(keys, LAMBDA k : ~KeyGE(j, k))
            IN  Flatten(Array([n \in 1..Len(ks) |-> forL(i, j, ks[n])]))
        forJ(i) ==
            LET js == SelectSeq(keys, LAMBDA j : ~KeyGE(i, j))
            IN  Flatten(Array([n \in 1..Len(js) |-> forK(i, js[n])]))
    IN  Flatten(Array([n \in 1..Len(keys) |-> forJ(keys[n])]))

\* The 4-tuples of keys <<i, j, k, l>> that reach line 88, in loop order: each
\* inner loop skips the keys that are not greater, as strings, than the key of
\* the loop around it, and the shared-coordinate test keeps the faces.
faceCandidates(dimension, cubePoints) ==
    LET keys == Keys(cubePoints)
        P(x) == At(cubePoints, x)
        forL(i, j, k) ==
            LET keep(l) == /\ ~KeyGE(k, l)
                           /\ SharedByAll(<<P(i), P(j), P(k), P(l)>>) = dimension - 2
                ls == SelectSeq(keys, keep)
            IN  Array([n \in 1..Len(ls) |-> <<i, j, k, ls[n]>>])
        forK(i, j) ==
            LET ks == SelectSeq(keys, LAMBDA k : ~KeyGE(j, k))
            IN  Flatten(Array([n \in 1..Len(ks) |-> forL(i, j, ks[n])]))
        forJ(i) ==
            LET js == SelectSeq(keys, LAMBDA j : ~KeyGE(i, j))
            IN  Flatten(Array([n \in 1..Len(js) |-> forK(i, js[n])]))
    IN  Flatten(Array([n \in 1..Len(keys) |-> forJ(keys[n])]))

\* faceGenerator(dimension, cubePoints), materialised by Array.from: the
\* ordered faceIndices of every candidate, in the order they are yielded.  An
\* entry <<>> stands for a candidate whose ordering loop never ends (the
\* generator then yields nothing more).
faceGenerator(dimension, cubePoints) ==
    LET cands == faceCandidates(dimension, cubePoints)
    IN  Array([n \in 1..Len(cands) |->
            orderFace(dimension, cubePoints, <<cands[n][1]>>,
                      <<cands[n][2], cands[n][3], cands[n][4]>>, 0)])

(* ------------------------------ rotations ------------------------------ *)

\* (3 + 4i)^k as <<re, im>>, k >= 0: 5^k * (cos(k alpha) + i sin(k alpha)).
RECURSIVE GaussPow(_)
GaussPow(k) ==
    IF k = 0 THEN <<1, 0>>
    ELSE LET z == GaussPow(k - 1)
         IN  <<3 * z[1] - 4 * z[2], 4 * z[1] + 3 * z[2]>>

\* Math.cos(theta) for an angle theta = [u, k]: k quarter turns (u = "Q") or
\* k times alpha (u = "A").
MathCos(theta) ==
    IF theta.u = "Q"
    THEN Int2Rat(CASE theta.k % 4 = 0 -> 1 [] theta.k % 4 = 2 -> -1 [] OTHER -> 0)
    ELSE Rat(GaussPow(Abs(theta.k))[1], Pow(5, Abs(theta.k)))

\* Math.sin(theta).
MathSin(theta) ==
    IF theta.u = "Q"
    THEN Int2Rat(CASE theta.k % 4 = 1 -> 1 [] theta.k % 4 = 3 -> -1 [] OTHER -> 0)
    ELSE Rat((IF theta.k < 0 THEN -1 ELSE 1) * GaussPow(Abs(theta.k))[2],
             Pow(5, Abs(theta.k)))

\* theta * multiplier for a finite rational multiplier (exact on the angle
\* scales whenever Exact below holds).
AngleTimes(theta, multiplier) ==
    [u |-> theta.u, k |-> (theta.k * multiplier[1]) \div multiplier[2]]

\* rotationsGenerator(dimension), materialised by Array.from: each yielded
\* closure is recorded by the variables it captures (i, j and dimension).
rotationsGenerator(dimension) ==
    LET inner(i) == Array([n \in 1..(dimension - 1 - i) |->
                        [i |-> i, j |-> i + n, dimension |-> dimension]])
    IN  IF dimension - 1 <= 0 THEN <<>>  \* the loop over i runs for no i
        ELSE Flatten(Array([n \in 1..(dimension - 1) |-> inner(n - 1)]))

\* matrix[r][c] = v for zero-based r and c.
MatSet(matrix, r, c, v) == [matrix EXCEPT ![r + 1][c + 1] = v]

\* The closure with the signs of the right-hand rule: +sin at [i][j], -sin at
\* [j][i].
rotationMatrix_rightHanded(rotation, theta) ==
    LET m0 == init(rotation.dimension, rotation.dimension)
        m1 == Array([r \in 1..rotation.dimension |-> [m0[r] EXCEPT ![r] = Int2Rat(1)]])
        m2 == MatSet(m1, rotation.i, rotation.i, MathCos(theta))
        m3 == MatSet(m2, rotation.i, rotation.j, MathSin(theta))
        m4 == MatSet(m3, rotation.j, rotation.i, RNeg(MathSin(theta)))
    IN  MatSet(m4, rotation.j, rotation.j, MathCos(theta))

\* The closure without the loop of line 134 that sets the diagonal to 1.
rotationMatrix_noIdentity(rotation, theta) ==
    LET m1 == init(rotation.dimension, rotation.dimension)
        m2 == MatSet(m1, rotation.i, rotation.i, MathCos(theta))
        m3 == MatSet(m2, rotation.i, rotation.j, RNeg(MathSin(theta)))
        m4 == MatSet(m3, rotation.j, rotation.i, MathSin(theta))
    IN  MatSet(m4, rotation.j, rotation.j, MathCos(theta))

\* The closure with -sin at both [i][j] and [j][i].
rotationMatrix_sameSign(rotation, theta) ==
    LET m0 == init(rotation.dimension, rotation.dimension)
        m1 == Array([r \in 1..rotation.dimension |-> [m0[r] EXCEPT ![r] = Int2Rat(1)]])
        m2 == MatSet(m1, rotation.i, rotation.i, MathCos(theta))
        m3 == MatSet(m2, rotation.i, rotation.j, RNeg(MathSin(theta)))
        m4 == MatSet(m3, rotation.j, rotation.i, RNeg(MathSin(theta)))
    IN  MatSet(m4, rotation.j, rotation.j, MathCos(theta))

\* The closure yielded by rotationsGenerator, called with theta (lines 132-140).
rotationMatrix(rotation, theta) ==
    LET m0 == init(rotation.dimension, rotation.dimension)
        m1 == Array([r \in 1..rotation.dimension |-> [m0[r] EXCEPT ![r] = Int2Rat(1)]])
        m2 == MatSet(m1, rotation.i, rotation.i, MathCos(theta))
        m3 == MatSet(m2, rotation.i, rotation.j, RNeg(MathSin(theta)))
        m4 == MatSet(m3, rotation.j, rotation.i, MathSin(theta))
    IN  MatSet(m4, rotation.j, rotation.j, MathCos(theta))

\* An optional value: <<>> is undefined, <<v>> is the value v.
None == <<>>

Some(v) == <<v>>

\* Whether Global.ROTATION_OFFSET is truthy: a number other than 0.
OffsetSet(G) == G.ROTATION_OFFSET # None /\ G.ROTATION_OFFSET[1] # 0

\* rotationLength (line 154), computed when the module is loaded.
rotationLength(G) == (G.DIMENSIONS * (G.DIMENSIONS - 1)) \div 2

\* The step of the multiplier taken as Global.ROTATION_OFFSET / Global.DIMENSIONS.
offsetStep_byDimension(G) ==
    IF G.ROTATION_OFFSET = None THEN NaN
    ELSE Rat(G.ROTATION_OFFSET[1], G.DIMENSIONS)

\* Global.ROTATION_OFFSET / rotationLength (line 176); undefined / n is NaN.
offsetStep(G) ==
    IF G.ROTATION_OFFSET = None THEN NaN
    ELSE Rat(G.ROTATION_OFFSET[1], rotationLength(G))

\* The loop over memo of transformGenerator (lines 168-177), from its n-th
\* rotation on, with the current pointMatrix and multiplier.
RECURSIVE applyRotations(_, _, _, _, _, _)
applyRotations(G, memo, n, theta, pointMatrix, multiplier) ==
    IF n > Len(memo) THEN pointMatrix
    ELSE LET r == IF OffsetSet(G)
                  THEN rotationMatrix(memo[n], AngleTimes(theta, multiplier))
                  ELSE rotationMatrix(memo[n], theta)
         IN  applyRotations(G, memo, n + 1, theta, mul(r, pointMatrix),
                            RAdd(multiplier, offsetStep(G)))

\* memo ??= ... with the list shortened by one at every later use.
memoize_consuming(memo, dimension) ==
    IF memo = None THEN Some(rotationsGenerator(dimension))
    ELSE Some(SubSeq(memo[1], 1, Len(memo[1]) - 1))

\* memo ??= Array.from(rotationsGenerator(Global.DIMENSIONS)) (line 165): the
\* memo after the statement.
memoize(memo, dimension) ==
    IF memo = None THEN Some(rotationsGenerator(dimension)) ELSE memo

\* Point.toMatrix storing the column cells into its argument.
toMatrixArgument_wrapsInPlace(point) == Array([r \in 1..Len(point) |-> <<point[r]>>])

\* The argument of Point.toMatrix after the call: the point is only read,
\* pointMatrix being a new array (src/modules/point.js lines 9-10).
toMatrixArgument(point) == point

\* One iteration of the for...of loop of transformGenerator (lines 158-180):
\* the point yielded for `point` when the clock read gives theta.
transformPoint(G, memo, theta, point) ==
    toPoint(applyRotations(G, memo, 1, theta, toMatrix(point), Int2Rat(1)))

\* theta of line 161 at clock reading t: elapsed time times Global.SPEED, on
\* the angle scale of Global.SPEED.
thetaAt(G, start, t) == [u |-> G.SPEED.u, k |-> (t - start) * G.SPEED.k]

(* ------------------------------ projection ----------------------------- *)

\* The body of the loop of projectionGenerator for axis i with r computed as
\* FAR_CLIPPING_PLANE / (FAR_CLIPPING_PLANE + newPoint[i]).
projectStep_addsDepth(G, len, i, newPoint) ==
    LET F == Int2Rat(G.FAR_CLIPPING_PLANE)
        r == RDiv(F, RAdd(F, At(newPoint, i)))
        m0 == init(len, len)
        projectionMatrix == Array([j \in 1..len |-> [m0[j] EXCEPT ![j] = r]])
    IN  toPoint(mul(projectionMatrix, toMatrix(newPoint)))

\* The body of the loop of projectionGenerator for axis i (lines 197-207):
\* newPoint after the iteration; len is point.length.
projectStep(G, len, i, newPoint) ==
    LET F == Int2Rat(G.FAR_CLIPPING_PLANE)
        r == RDiv(F, RAdd(F, RNeg(At(newPoint, i))))
        m0 == init(len, len)
        projectionMatrix == Array([j \in 1..len |-> [m0[j] EXCEPT ![j] = r]])
        newPointMatrix == mul(projectionMatrix, toMatrix(newPoint))
    IN  toPoint(newPointMatrix)

\* The loop of projectionGenerator running while i > 0 instead of i > 1.
RECURSIVE projectAxes_downToAxisOne(_, _, _, _)
projectAxes_downToAxisOne(G, len, i, newPoint) ==
    IF i <= 0 THEN newPoint
    ELSE projectAxes_downToAxisOne(G, len, i - 1, projectStep(G, len, i, newPoint))

\* The loop of projectionGenerator over the axes i = point.length - 1 down to 2
\* (lines 196-208), from axis i on, with the current newPoint; len is
\* point.length.
RECURSIVE projectAxes(_, _, _, _)
projectAxes(G, len, i, newPoint) ==
    IF i <= 1 THEN newPoint
    ELSE projectAxes(G, len, i - 1, projectStep(G, len, i, newPoint))

\* projectionGenerator(points), materialised by Array.from.
projectionGenerator(G, pts) ==
    Array([n \in 1..Len(pts) |->
        projectAxes(G, Len(pts[n]), Len(pts[n]) - 1, pts[n])])

(* ---------------------------- configuration ---------------------------- *)

\* Projection.PERSPECTIVE and Projection.ORTHOGRAPHIC.
PERSPECTIVE == 0

ORTHOGRAPHIC == 1

\* Display.VERTICES, Display.EDGES and Display.FACES.
VERTICES == 1

EDGES == 2

FACES == 4

\* Display.has(d) for a single-bit d: (Global.DISPLAY & d) > 0.
DisplayHas(G, d) == (G.DISPLAY \div d) % 2 = 1

\* The default Global.FAR_CLIPPING_PLANE.
FAR_CLIPPING_PLANE == 1000

(* -------------------------------- Canvas ------------------------------ *)

\* The transform of a 2d context after ctx.scale(x, y): a and d are the
\* horizontal and vertical scale, e and f the translation in bitmap pixels.
scale(transform, x, y) ==
    [transform EXCEPT !.a = RMul(@, x), !.d = RMul(@, y)]

\* The transform of a 2d context after ctx.translate(x, y).
translate(transform, x, y) ==
    [transform EXCEPT !.e = RAdd(@, RMul(transform.a, x)),
                      !.f = RAdd(@, RMul(transform.d, y))]

\* The transform of a 2d context in its default state.
identityTransform ==
    [a |-> Int2Rat(1), d |-> Int2Rat(1), e |-> Int2Rat(0), f |-> Int2Rat(0)]

\* resize() with the assignments of canvas.width and canvas.height leaving
\* the transform of the context as it was.
resize_keepsTransform(canvas, win) ==
    LET width == win.innerWidth
        height == win.innerHeight
        scaled == scale(canvas.transform, Int2Rat(canvas.ratio),
                        Int2Rat(canvas.ratio))
    IN  [canvas EXCEPT !.width = width * canvas.ratio,
                       !.height = height * canvas.ratio,
                       !.styleWidth = width,
                       !.styleHeight = height,
                       !.transform = translate(scaled, Rat(width, 2),
                                               Rat(height, 2))]

\* resize() of Canvas (src/4d-app.js lines 196-204): the canvas after the
\* call.  Assigning canvas.width or canvas.height resets the context, its
\* transform included, to the default state; ratio is the constant of the
\* closure (line 193).
resize(canvas, win) ==
    LET width == win.innerWidth
        height == win.innerHeight
        scaled == scale(identityTransform, Int2Rat(canvas.ratio),
                        Int2Rat(canvas.ratio))
    IN  [canvas EXCEPT !.width = width * canvas.ratio,
                       !.height = height * canvas.ratio,
                       !.styleWidth = width,
                       !.styleHeight = height,
                       !.transform = translate(scaled, Rat(width, 2),
                                               Rat(height, 2))]

\* Canvas() (src/4d-app.js lines 192-214): a canvas element of the default
\* size, resized once to the window.
Canvas(win) ==
    resize([ratio |-> win.devicePixelRatio, width |-> 300, height |-> 150,
            styleWidth |-> 0, styleHeight |-> 0,
            transform |-> identityTransform], win)

\* The number of times the right-hand side of `memo ??= Array.from(...)` is
\* evaluated, every time the statement is executed.
generatorRuns_everyCall(memo) == 1

\* The number of times the right-hand side of `memo ??= Array.from(...)`
\* (lines 165, 242, 259) is evaluated when the statement is executed: once
\* when memo is undefined, never otherwise.
generatorRuns(memo) == IF memo = None THEN 1 ELSE 0

(* -------------------------------- state -------------------------------- *)

VARIABLES
    Global,         \* the frozen configuration object
    now,            \* window.performance.now() / 1000, in model time units
    start,          \* start of transformGenerator's closure (line 153)
    pc,             \* "loaded", "ready" (between ticks), "transform" (inside
                    \* draw, transformGenerator running), "hung" (draw never
                    \* returns), "failed" (draw threw)
    called,         \* whether Renderer.draw() has been called from outside
    frames,         \* callbacks registered with requestAnimationFrame, pending
    cubePoints,     \* module variable cubePoints (None until setup)
    transformMemo,  \* memo of transformGenerator's closure
    edgesMemo,      \* memo of drawEdges' closure
    facesMemo,      \* memo of drawFaces' closure
    points,         \* the points transformGenerator has yielded in this tick,
                    \* then the points drawn
    thetas,         \* theta of line 161 as computed for each of those points
    fills,          \* faces filled on the canvas in this tick
    strokes,        \* edges stroked on the canvas in this tick
    dots,           \* vertices drawn on the canvas in this tick
    args,           \* the arguments of a direct call of Matrix.mul, if any
    result,         \* the outcome of that call, once it has ended
    runs,           \* how many times each generator has been run: rotations
                    \* (rotationsGenerator), edges, faces
    window,         \* innerWidth, innerHeight and devicePixelRatio of the window
    surface         \* the canvas element made by setup (None until then)

vars == <<Global, now, start, pc, called, frames, cubePoints, transformMemo,
          edgesMemo, facesMemo, points, thetas, fills, strokes, dots, args,
          result, runs, window, surface>>

\* The angle each rotation of the list is called with at elapsed time e.
planeAngle(G, e, n) ==
    IF OffsetSet(G)
    THEN (e * G.SPEED.k * (rotationLength(G) + n * G.ROTATION_OFFSET[1]))
             \div rotationLength(G)
    ELSE e * G.SPEED.k

\* Whether every angle used at elapsed time e lies on the exact angle scale,
\* and, on the alpha scale, within the explored precision.
Exact(G, e) ==
    /\ OffsetSet(G) =>
          \A n \in 0..(rotationLength(G) - 1) :
              (e * G.SPEED.k * (rotationLength(G) + n * G.ROTATION_OFFSET[1]))
                  % rotationLength(G) = 0
    /\ G.SPEED.u = "A" =>
          SumSeq(Array([n \in 1..rotationLength(G) |->
                            Abs(planeAngle(G, e, n - 1))]))
              <= AlphaPrecision

\* The configurations with the given ranges.
Configs(dims, sizes, speeds, offsets, projections, displays) ==
    [DIMENSIONS : dims, SIZE : sizes, SPEED : speeds, ROTATION_OFFSET : offsets,
     PROJECTION : projections, DISPLAY : displays,
     FAR_CLIPPING_PLANE : {FAR_CLIPPING_PLANE}]

Speeds == [u : {"Q"}, k : 0..MaxSpeed] \cup [u : {"A"}, k : {1}]

Offsets == {None} \cup {Some(o) : o \in 0..MaxOffset}

\* The windows within the bounds.
Windows ==
    [innerWidth : 1..MaxWindow, innerHeight : 1..MaxWindow,
     devicePixelRatio : 1..MaxRatio]

\* The state once the modules are loaded, for a configuration of C in a
\* window of W.
InitIn(C, W) ==
    /\ Global \in C
    /\ window \in W
    /\ surface = None
    /\ runs = [rotations |-> 0, edges |-> 0, faces |-> 0]
    /\ now = 0
    /\ start = now
    /\ pc = "loaded"
    /\ called = FALSE
    /\ frames = 0
    /\ cubePoints = None
    /\ transformMemo = None
    /\ edgesMemo = None
    /\ facesMemo = None
    /\ points = <<>>
    /\ thetas = <<>>
    /\ fills = <<>>
    /\ strokes = <<>>
    /\ dots = <<>>
    /\ args = None
    /\ result = None

\* The state once the modules are loaded, for a configuration of C, in a
\* window of 2 by 2 CSS pixels of one bitmap pixel each.
InitWith(C) ==
    InitIn(C, {[innerWidth |-> 2, innerHeight |-> 2, devicePixelRatio |-> 1]})

(* ------------------------------- actions ------------------------------- *)

\* The host clock advances (while every angle stays on the exact scale).
ClockAdvance ==
    /\ now < MaxTime
    /\ Exact(Global, now + 1 - start)
    /\ now' = now + 1
    /\ UNCHANGED <<Global, start, pc, called, frames, cubePoints, transformMemo,
                   edgesMemo, facesMemo, points, thetas, fills, strokes, dots,
                   args, result,
                   runs, window, surface>>

\* The host clock advances between two ticks, or after the tick loop halted.
ClockBetweenFrames ==
    /\ pc \in {"loaded", "ready", "failed"}
    /\ ClockAdvance

\* Renderer.setup() (lines 217-226).
setup ==
    /\ pc = "loaded"
    /\ surface' = Some(Canvas(window))
    /\ cubePoints' = Some(cubePointsGenerator(Global.DIMENSIONS, Global.SIZE))
    /\ pc' = "ready"
    /\ UNCHANGED <<Global, now, start, called, frames, transformMemo, edgesMemo,
                   facesMemo, points, thetas, fills, strokes, dots, args, result,
                   runs, window>>

\* draw() up to the first point asked of transformGenerator (lines 304-313):
\* the background clears the frame.
drawEnter ==
    /\ pc' = "transform"
    /\ points' = <<>>
    /\ thetas' = <<>>
    /\ fills' = <<>>
    /\ strokes' = <<>>
    /\ dots' = <<>>
    /\ UNCHANGED <<Global, now, start, cubePoints, transformMemo, edgesMemo,
                   facesMemo, args, result,
                   runs, window, surface>>

\* Renderer.draw() called by the application, after setup.
CallDraw ==
    /\ pc = "ready"
    /\ ~called
    /\ called' = TRUE
    /\ UNCHANGED frames
    /\ drawEnter

\* Renderer.draw() called before setup, with the error caught and the next
\* frame requested all the same.
CallDrawUninitialized_schedulesNext ==
    /\ pc = "loaded"
    /\ ~called
    /\ called' = TRUE
    /\ pc' = "failed"
    /\ frames' = frames + 1
    /\ UNCHANGED <<Global, now, start, cubePoints, transformMemo, edgesMemo,
                   facesMemo, points, thetas, fills, strokes, dots, args, result,
                   runs, window, surface>>

\* Renderer.draw() called by the application before setup: drawBackground
\* reads canvas.width of the undefined canvas (line 277), the TypeError
\* leaves draw() at line 305, before line 332 is reached.
CallDrawUninitialized ==
    /\ pc = "loaded"
    /\ ~called
    /\ called' = TRUE
    /\ pc' = "failed"
    /\ UNCHANGED <<Global, now, start, frames, cubePoints, transformMemo,
                   edgesMemo, facesMemo, points, thetas, fills, strokes, dots,
                   args, result,
                   runs, window, surface>>

\* The callback of line 332 run without being removed from the pending ones.
AnimationFrame_staysPending ==
    /\ pc = "ready"
    /\ frames > 0
    /\ UNCHANGED <<called, frames>>
    /\ drawEnter

\* The host runs a callback registered with requestAnimationFrame (line 332).
AnimationFrame ==
    /\ pc = "ready"
    /\ frames > 0
    /\ frames' = frames - 1
    /\ UNCHANGED called
    /\ drawEnter

\* transformGenerator yields its next point (lines 157-181): the clock is
\* read, the rotations are memoized and applied.
TransformNext ==
    /\ pc = "transform"
    /\ Len(points) < Len(cubePoints[1])
    /\ LET point == cubePoints[1][Len(points) + 1]
           theta == thetaAt(Global, start, now)
           memo == memoize(transformMemo, Global.DIMENSIONS)
       IN  /\ transformMemo' = memo
           /\ runs' = [runs EXCEPT !.rotations = @ + generatorRuns(transformMemo)]
           /\ thetas' = Append(thetas, theta)
           /\ points' = Append(points, transformPoint(Global, memo[1], theta, point))
           /\ cubePoints' = Some([cubePoints[1] EXCEPT
                                     ![Len(points) + 1] = toMatrixArgument(point)])
    /\ UNCHANGED <<Global, now, start, pc, called, frames, edgesMemo, facesMemo,
                   fills, strokes, dots, args, result,
                   window, surface>>

\* The rest of draw() once transformGenerator is exhausted (lines 313-332):
\* projection, drawFaces, drawEdges, drawVertices, requestAnimationFrame.
DrawRest ==
    /\ pc = "transform"
    /\ Len(points) = Len(cubePoints[1])
    /\ \E projected \in {IF Global.PROJECTION = PERSPECTIVE
                         THEN projectionGenerator(Global, points)
                         ELSE points},
          fmemo \in {IF DisplayHas(Global, FACES) /\ facesMemo = None
                     THEN Some(faceGenerator(Global.DIMENSIONS, cubePoints[1]))
                     ELSE facesMemo},
          ememo \in {IF DisplayHas(Global, EDGES) /\ edgesMemo = None
                     THEN Some(edgeGenerator(Global.DIMENSIONS, cubePoints[1]))
                     ELSE edgesMemo} :
          /\ points' = projected
          /\ runs' = [runs EXCEPT
                        !.faces = @ + (IF DisplayHas(Global, FACES)
                                       THEN generatorRuns(facesMemo) ELSE 0),
                        !.edges = @ + (IF DisplayHas(Global, EDGES)
                                       /\ ~(DisplayHas(Global, FACES)
                                            /\ <<>> \in Range(fmemo[1]))
                                       THEN generatorRuns(edgesMemo) ELSE 0)]
          /\ IF DisplayHas(Global, FACES) /\ <<>> \in Range(fmemo[1])
             THEN \* the ordering loop of a face never ends: draw() never returns
                  /\ pc' = "hung"
                  /\ UNCHANGED <<facesMemo, edgesMemo, fills, strokes, dots, frames>>
             ELSE /\ pc' = "ready"
                  /\ facesMemo' = fmemo
                  /\ edgesMemo' = ememo
                  /\ fills' = IF DisplayHas(Global, FACES) THEN fmemo[1] ELSE <<>>
                  /\ strokes' = IF DisplayHas(Global, EDGES) THEN ememo[1] ELSE <<>>
                  /\ dots' = IF DisplayHas(Global, VERTICES) THEN Keys(projected) ELSE <<>>
                  /\ frames' = frames + 1
    /\ UNCHANGED <<Global, now, start, called, cubePoints, transformMemo, thetas,
                   args, result,
                   window, surface>>

\* A caller's Matrix.mul(a, b) on the arguments it holds.
MulCall ==
    /\ args # None
    /\ result = None
    /\ result' = Some(mulCall(args[1][1], args[1][2]))
    /\ UNCHANGED <<Global, now, start, pc, called, frames, cubePoints,
                   transformMemo, edgesMemo, facesMemo, points, thetas, fills,
                   strokes, dots, args,
                   runs, window, surface>>

\* The host clock advances while draw() runs, between two points asked of
\* transformGenerator (each of which reads the clock, line 161).
ClockDuringTick ==
    /\ pc = "transform"
    /\ ClockAdvance

\* The window takes a size (the size it has included) and the host runs the
\* listener of its resize event (src/4d-app.js lines 207-210) between two
\* ticks: resize() on the canvas, whose bitmap the assignment of canvas.width
\* clears.  Before setup() there is no canvas and no listener.
WindowResize ==
    /\ pc \in {"loaded", "ready", "failed"}
    /\ \E width \in 1..MaxWindow, height \in 1..MaxWindow :
          window' = [window EXCEPT !.innerWidth = width, !.innerHeight = height]
    /\ IF surface = None
       THEN UNCHANGED <<surface, fills, strokes, dots>>
       ELSE /\ surface' = Some(resize(surface[1], window'))
            /\ fills' = <<>>
            /\ strokes' = <<>>
            /\ dots' = <<>>
    /\ UNCHANGED <<Global, now, start, pc, called, frames, cubePoints,
                   transformMemo, edgesMemo, facesMemo, points, thetas, args,
                   result, runs>>

\* The steps of the ticks during which the clock reading does not change; the
\* clock advances between ticks.
Next ==
    \/ ClockBetweenFrames
    \/ setup
    \/ CallDraw
    \/ CallDrawUninitialized
    \/ AnimationFrame
    \/ TransformNext
    \/ DrawRest

\* The dimensions the face generator is explored for.
FaceDims == 2..5

\* Cubes of every dimension within the bounds, of the smallest and the largest
\* size, in either projection mode, displaying vertices, edges, faces or all
\* three, turning a quarter turn per time unit.
Spec ==
    InitWith(Configs(2..MaxDim, {1, MaxSize}, {[u |-> "Q", k |-> 1]}, {Some(0)},
                     {PERSPECTIVE, ORTHOGRAPHIC},
                     {VERTICES, EDGES, FACES, VERTICES + EDGES + FACES}))
        /\ [][Next]_vars

\* Unit cubes of dimension 2 to 5 with their faces displayed.
SpecFaces ==
    InitWith(Configs(FaceDims, {1}, {[u |-> "Q", k |-> 1]}, {Some(0)},
                     {ORTHOGRAPHIC}, {FACES, FACES + VERTICES, FACES + EDGES,
                                      FACES + EDGES + VERTICES}))
        /\ [][Next]_vars

\* Every speed and rotation offset within the bounds, the largest cube size,
\* vertices displayed.
SpecRot ==
    InitWith(Configs(2..MaxDim, {MaxSize}, Speeds, Offsets, {ORTHOGRAPHIC},
                     {VERTICES})) /\ [][Next]_vars

\* The dimensions a whole tick is explored for.
TickDims == 2..4

\* Cubes of size 2 turning by a quarter turn or by alpha per time unit, every
\* plane by the same angle or each by more than the one before, in either
\* projection mode, displaying vertices and edges, or faces.
SpecTick ==
    InitWith(Configs(TickDims, {2}, {[u |-> "Q", k |-> 1], [u |-> "A", k |-> 1]},
                     {Some(0), Some(1)}, {PERSPECTIVE, ORTHOGRAPHIC},
                     {VERTICES + EDGES, FACES}))
        /\ [][Next]_vars

\* The dimensions setup is explored for: below 2 as well.
SetupDims == {-3, 0, 1, 2, 3}

\* Unit cubes of a configured dimension that may be less than 2.
SpecSetup ==
    InitWith(Configs(SetupDims, {1}, {[u |-> "Q", k |-> 1]}, {Some(0)},
                     {PERSPECTIVE, ORTHOGRAPHIC},
                     {VERTICES, EDGES, EDGES + FACES}))
        /\ [][Next]_vars

\* The row lengths of the arrays of at most MaxRows rows of at most MaxCols
\* numbers each, the rows of one array not necessarily of one length.
Shapes == UNION {[1..rows -> 0..MaxCols] : rows \in 0..MaxRows}

\* The array of arrays of the given row lengths holding the integer
\* r * c - offset at row r, column c (one-based).
Filled(shape, offset) ==
    Array([r \in 1..Len(shape) |->
        Array([c \in 1..shape[r] |-> Int2Rat(r * c - offset)])])

\* One array of arrays of integers for every shape.
Arrays2d(offset) == {Filled(shape, offset) : shape \in Shapes}

\* The modules loaded, and a caller about to multiply two arrays of arrays.
InitMul ==
    /\ Global \in Configs({2}, {1}, {[u |-> "Q", k |-> 1]}, {Some(0)},
                          {ORTHOGRAPHIC}, {VERTICES})
    /\ now = 0
    /\ start = now
    /\ pc = "loaded"
    /\ called = FALSE
    /\ frames = 0
    /\ cubePoints = None
    /\ transformMemo = None
    /\ edgesMemo = None
    /\ facesMemo = None
    /\ points = <<>>
    /\ thetas = <<>>
    /\ fills = <<>>
    /\ strokes = <<>>
    /\ dots = <<>>
    /\ runs = [rotations |-> 0, edges |-> 0, faces |-> 0]
    /\ window = [innerWidth |-> 2, innerHeight |-> 2, devicePixelRatio |-> 1]
    /\ surface = None
    /\ args \in {Some(<<a, b>>) : a \in Arrays2d(2), b \in Arrays2d(3)}
    /\ result = None

NextMul == MulCall

\* Matrix.mul called directly on every pair of arrays within the bounds.
SpecMul == InitMul /\ [][NextMul]_vars

\* Every step of Next, and the clock advancing while a tick runs.
NextClock == Next \/ ClockDuringTick

\* Unit squares and cubes turning a quarter turn per time unit, the clock
\* free to advance at any moment.
SpecClock ==
    InitWith(Configs({2, 3}, {1}, {[u |-> "Q", k |-> 1]}, {Some(0)},
                     {ORTHOGRAPHIC}, {VERTICES}))
        /\ [][NextClock]_vars

\* Every step of Next, and the window resized between two ticks.
NextResize == Next \/ WindowResize

\* A unit square turning a quarter turn per time unit in every window within
\* the bounds, the window free to be resized between ticks.
SpecResize ==
    InitIn(Configs({2}, {1}, {[u |-> "Q", k |-> 1]}, {Some(0)},
                   {ORTHOGRAPHIC}, {VERTICES + EDGES}), Windows)
        /\ [][NextResize]_vars

(* ================================ claims =============================== *)

\* Bit b (0 = least significant) of the natural number i.
Bit(i, b) == (i \div Pow(2, b)) % 2

\* The number of coordinates in which the points a and b differ.
Differing(a, b) == Cardinality({k \in 1..Len(a) : a[k] # b[k]})

\* C1: once setup has run, cubePoints holds exactly 2^D points in index order
\* i = 0..2^D-1; point i has D coordinates, the k-th being +s/2 when bit
\* (D-1-k) of i is 1 and -s/2 otherwise; the points are pairwise distinct.
C1_VerticesAreBinaryCorners ==
    cubePoints # None =>
        LET D == Global.DIMENSIONS
            cube == cubePoints[1]
        IN  /\ Len(cube) = Pow(2, D)
            /\ \A i \in 0..(Pow(2, D) - 1) :
                  /\ Len(At(cube, i)) = D
                  /\ \A k \in 0..(D - 1) :
                        At(At(cube, i), k) =
                            Rat((IF Bit(i, D - 1 - k) = 1 THEN 1 ELSE -1) * Global.SIZE, 2)
            /\ \A i, j \in 0..(Pow(2, D) - 1) : i # j => At(cube, i) # At(cube, j)

\* C1 witness: the 3-cube of size 2 has been generated; its first point is
\* (-1, -1, -1), its point 5 = 101b is (1, -1, 1) and its last (1, 1, 1).
C1_Witness ==
    /\ cubePoints # None
    /\ Global.DIMENSIONS = 3
    /\ Global.SIZE = 2
    /\ At(cubePoints[1], 0) = <<Int2Rat(-1), Int2Rat(-1), Int2Rat(-1)>>
    /\ At(cubePoints[1], 5) = <<Int2Rat(1), Int2Rat(-1), Int2Rat(1)>>
    /\ At(cubePoints[1], 7) = <<Int2Rat(1), Int2Rat(1), Int2Rat(1)>>

\* C2: the edge generator run over the 2^D base vertices emits exactly
\* D * 2^(D-1) index pairs.
C2_EdgeCount ==
    edgesMemo # None =>
        Len(edgesMemo[1]) = Global.DIMENSIONS * Pow(2, Global.DIMENSIONS - 1)

\* C3: every emitted pair [i, j] has i # j, both indices within 0..2^D-1, and
\* base points i and j that differ in exactly one coordinate.
C3_EdgesJoinNeighbours ==
    edgesMemo # None =>
        \A n \in 1..Len(edgesMemo[1]) :
            LET i == edgesMemo[1][n][1]
                j == edgesMemo[1][n][2]
            IN  /\ i # j
                /\ i \in 0..(Pow(2, Global.DIMENSIONS) - 1)
                /\ j \in 0..(Pow(2, Global.DIMENSIONS) - 1)
                /\ Differing(At(cubePoints[1], i), At(cubePoints[1], j)) = 1

\* C3 witness: the edges of the 4-cube have been generated, among them the
\* pair [0, 8] of (-,-,-,-) and (+,-,-,-).
C3_Witness ==
    /\ edgesMemo # None
    /\ Global.DIMENSIONS = 4
    /\ <<0, 8>> \in Range(edgesMemo[1])

\* C4: in a tick with EDGES displayed, no edge is stroked twice: the stroked
\* list never holds the same pair twice, nor a pair and its reverse.
C4_EachEdgeStrokedOnce ==
    \A m, n \in 1..Len(strokes) :
        m # n => /\ strokes[m] # strokes[n]
                 /\ strokes[m] # <<strokes[n][2], strokes[n][1]>>

\* C5: for D = 4 the face generator emits exactly 24 faces, for D = 3 exactly
\* 6 (draw never sticks in it); each face has 4 distinct indices whose points
\* share exactly D-2 coordinates, and no two faces have the same set of indices.
C5_FaceCount ==
    /\ pc # "hung"
    /\ facesMemo # None =>
        LET faces == facesMemo[1]
            D == Global.DIMENSIONS
        IN  /\ D = 4 => Len(faces) = 24
            /\ D = 3 => Len(faces) = 6
            /\ \A n \in 1..Len(faces) :
                  /\ Len(faces[n]) = 4
                  /\ Cardinality(Range(faces[n])) = 4
                  /\ Cardinality({k \in 1..D :
                        \A x, y \in Range(faces[n]) :
                            At(cubePoints[1], x)[k] = At(cubePoints[1], y)[k]}) = D - 2
            /\ \A m, n \in 1..Len(faces) :
                  m # n => Range(faces[m]) # Range(faces[n])

\* C5 witness: the 24 faces of the 4-cube have been generated.
C5_Witness ==
    /\ facesMemo # None
    /\ Global.DIMENSIONS = 4
    /\ Len(facesMemo[1]) = 24

\* C6: for every D from 2 to 5, each consecutive pair of a face's 4 indices,
\* the pair last-to-first included, refers to base points that differ in
\* exactly one coordinate.
C6_FacesTraceBoundary ==
    facesMemo # None =>
        \A n \in 1..Len(facesMemo[1]) :
            LET face == facesMemo[1][n]
            IN  /\ Len(face) = 4
                /\ \A m \in 1..4 :
                      Differing(At(cubePoints[1], face[m]),
                                At(cubePoints[1], face[(m % 4) + 1])) = 1

\* C6 witness: the faces of the 5-cube have been generated, among them one
\* whose keys are not emitted in ascending order (<<10, 11, 3, 2>>).
C6_Witness ==
    /\ facesMemo # None
    /\ Global.DIMENSIONS = 5
    /\ Len(facesMemo[1]) = 80
    /\ <<10, 11, 3, 2>> \in Range(facesMemo[1])

\* The angles the rotation builders are compared at.
SampleAngles == [u : {"Q"}, k : 0..3] \cup [u : {"A"}, k : -2..2]

\* The zero-based place of the axis pair (i, j), i < j, when the pairs are
\* listed with i ascending from 0 to D-2 and, within i, j ascending from i+1
\* to D-1.
PlaneIndex(D, i, j) == i * D - ((i * (i + 1)) \div 2) + (j - i - 1)

\* The D x D identity except M[i][i] = M[j][j] = cos(theta),
\* M[i][j] = -sin(theta), M[j][i] = +sin(theta).
PlaneRotation(D, i, j, theta) ==
    Array([r \in 1..D |-> Array([c \in 1..D |->
        IF (r - 1 = i /\ c - 1 = i) \/ (r - 1 = j /\ c - 1 = j) THEN MathCos(theta)
        ELSE IF r - 1 = i /\ c - 1 = j THEN RNeg(MathSin(theta))
        ELSE IF r - 1 = j /\ c - 1 = i THEN MathSin(theta)
        ELSE IF r = c THEN Int2Rat(1)
        ELSE Int2Rat(0)])])

\* C7: the memoized list of rotationsGenerator(D) has exactly D(D-1)/2
\* builders, the one for the axis pair (i, j), i < j, at the place the order
\* "i ascending, then j ascending" gives it; the matrix it builds at angle
\* theta is the identity except M[i][i] = M[j][j] = cos(theta),
\* M[i][j] = -sin(theta), M[j][i] = +sin(theta).
C7_RotationBuilders ==
    transformMemo # None =>
        LET D == Global.DIMENSIONS
            memo == transformMemo[1]
        IN  /\ Len(memo) = (D * (D - 1)) \div 2
            /\ \A i, j \in 0..(D - 1) :
                  i < j =>
                      /\ memo[PlaneIndex(D, i, j) + 1].i = i
                      /\ memo[PlaneIndex(D, i, j) + 1].j = j
                      /\ \A theta \in SampleAngles :
                            rotationMatrix(memo[PlaneIndex(D, i, j) + 1], theta)
                                = PlaneRotation(D, i, j, theta)

\* C7 witness: the six builders of dimension 4 are memoized, the fourth being
\* the one of the axis pair (1, 2).
C7_Witness ==
    /\ transformMemo # None
    /\ Global.DIMENSIONS = 4
    /\ Len(transformMemo[1]) = 6
    /\ transformMemo[1][4].i = 1
    /\ transformMemo[1][4].j = 2

\* The axis pair at zero-based place n of the enumeration.
PlaneAt(D, n) ==
    CHOOSE ij \in (0..(D - 1)) \X (0..(D - 1)) :
        ij[1] < ij[2] /\ PlaneIndex(D, ij[1], ij[2]) = n

\* theta_k = theta_base * (1 + k * offset / N) when the rotation offset is
\* non-zero, theta_base when it is zero or unset.
PlaneTheta(G, thetaBase, k) ==
    LET N == (G.DIMENSIONS * (G.DIMENSIONS - 1)) \div 2
    IN  IF G.ROTATION_OFFSET # None /\ G.ROTATION_OFFSET[1] # 0
        THEN [u |-> thetaBase.u,
              k |-> (thetaBase.k * (N + k * G.ROTATION_OFFSET[1])) \div N]
        ELSE thetaBase

\* R_k(theta_k) * ... * R_0(theta_0) * p as a column matrix.
RECURSIVE Rotated(_, _, _, _)
Rotated(G, thetaBase, k, p) ==
    LET D == G.DIMENSIONS
        R == PlaneRotation(D, PlaneAt(D, k)[1], PlaneAt(D, k)[2],
                           PlaneTheta(G, thetaBase, k))
    IN  mul(R, IF k = 0 THEN toMatrix(p) ELSE Rotated(G, thetaBase, k - 1, p))

\* The point transformGenerator yielded last in this tick is the n-th.
Yielded(n) == pc = "transform" /\ Len(points) = n /\ n >= 1

\* C8: the point transformGenerator yields for a base point p is
\* R_{N-1}(theta_{N-1}) * ... * R_0(theta_0) * p, the planes in enumeration
\* order, N = D(D-1)/2, theta_k = theta_base * (1 + k * offset / N) when the
\* rotation offset is non-zero and theta_base otherwise; the multiplier
\* restarts at 1 for every point.
C8_TransformIsOrderedProduct ==
    \A n \in 1..Len(points) :
        Yielded(n) =>
            points[n] =
                toPoint(Rotated(Global, thetas[n],
                                rotationLength(Global) - 1, cubePoints[1][n]))

\* C8 witness: the last point of a 3-cube has been rotated with a non-zero
\* offset at a non-zero angle, and has moved.
C8_Witness ==
    /\ Yielded(8)
    /\ Global.DIMENSIONS = 3
    /\ Global.ROTATION_OFFSET = Some(1)
    /\ thetas[8].k # 0
    /\ points[8] # cubePoints[1][8]
    /\ points[2] # cubePoints[1][2]

\* C9: composing all plane rotations at theta_base = 0 (speed 0 or zero
\* elapsed time) returns a point equal to p in every coordinate, for every
\* rotation-offset value.
C9_ZeroAngleIsIdentity ==
    \A n \in 1..Len(points) :
        (Yielded(n) /\ thetas[n].k = 0) => points[n] = cubePoints[1][n]

\* C9 witness: every point of a 4-cube has been rotated at theta_base = 0, the
\* speed and the offset being non-zero (zero elapsed time).
C9_Witness ==
    /\ Yielded(16)
    /\ Global.DIMENSIONS = 4
    /\ Global.SPEED.k # 0
    /\ Global.ROTATION_OFFSET = Some(2)
    /\ thetas[16].k = 0

\* The sum of the squared coordinates of p.
RECURSIVE NormSq(_)
NormSq(p) == IF p = <<>> THEN Int2Rat(0)
             ELSE RAdd(RMul(Head(p), Head(p)), NormSq(Tail(p)))

\* C10: the composed rotation of a point p has the same sum of squared
\* coordinates as p (exactly, in exact arithmetic).
C10_RotationPreservesNorm ==
    \A n \in 1..Len(points) :
        Yielded(n) => NormSq(points[n]) = NormSq(cubePoints[1][n])

\* C10 witness: a point of a 3-cube has been rotated by alpha in each of the
\* three planes, to coordinates that are not those of a cube vertex.
C10_Witness ==
    /\ Yielded(8)
    /\ Global.DIMENSIONS = 3
    /\ Global.SPEED.u = "A"
    /\ thetas[8].k = 1
    /\ \E c \in 1..3 : points[8][c][2] > 2

\* The step of draw() that ends the transformation of a tick and hands the
\* point set to drawing: `points` are the rotated points before it and the
\* points handed to drawing after it.
HandsToDrawing == pc = "transform" /\ pc' # "transform"

\* The working point w scaled by r = F / (F - w[i]) for the axes i, i - 1, ...,
\* 2 in turn, every coordinate of w being scaled.
RECURSIVE ScaledDownFrom(_, _, _)
ScaledDownFrom(F, w, i) ==
    IF i <= 1 THEN w
    ELSE LET r == RDiv(F, RAdd(F, RNeg(w[i + 1])))
         IN  ScaledDownFrom(F, Array([c \in 1..Len(w) |-> RMul(r, w[c])]), i - 1)

\* C11: in perspective mode with far clipping plane F, the screen coordinates
\* (coordinates 0 and 1) of a projected point are those of the rotated point
\* scaled, for the axes D-1 down to 2 in turn, by r = F / (F - n), n being the
\* working point's current, already scaled, coordinate at that axis; for
\* D = 3 a point (x, y, z) with z # F gives (x*F/(F-z), y*F/(F-z)).
C11_PerspectiveScaling ==
    [][(HandsToDrawing /\ Global.PROJECTION = PERSPECTIVE) =>
          \A n \in 1..Len(points) :
              LET F == Int2Rat(Global.FAR_CLIPPING_PLANE)
                  p == points[n]
                  q == points'[n]
              IN  /\ \A c \in 1..2 : q[c] = ScaledDownFrom(F, p, Len(p) - 1)[c]
                  /\ (Len(p) = 3 /\ p[3] # F) =>
                        /\ q[1] = RDiv(RMul(p[1], F), RAdd(F, RNeg(p[3])))
                        /\ q[2] = RDiv(RMul(p[2], F), RAdd(F, RNeg(p[3])))]_vars

\* C11 witness: the vertex (1, 1, 1) of the unrotated 3-cube of size 2 has
\* been projected with F = 1000 to (1000/999, 1000/999).
C11_Witness ==
    /\ pc = "ready" /\ called
    /\ Global.PROJECTION = PERSPECTIVE
    /\ Global.DIMENSIONS = 3
    /\ Global.FAR_CLIPPING_PLANE = 1000
    /\ cubePoints[1][8] = <<Int2Rat(1), Int2Rat(1), Int2Rat(1)>>
    /\ thetas[8].k = 0
    /\ points[8][1] = <<1000, 999>>
    /\ points[8][2] = <<1000, 999>>

\* The working point of projectionGenerator for `point` after the steps for
\* the axes point.length - 1 down to i.
RECURSIVE WorkingPoint(_, _, _)
WorkingPoint(G, point, i) ==
    projectStep(G, Len(point), i,
                IF i = Len(point) - 1 THEN point ELSE WorkingPoint(G, point, i + 1))

\* C12: after the projection step for axis i the working point has exactly i
\* coordinates (the coordinate at axis i is no longer carried).
C12_StepDropsAxis ==
    (/\ pc = "transform"
     /\ Len(points) = Len(cubePoints[1])
     /\ Global.PROJECTION = PERSPECTIVE) =>
        \A n \in 1..Len(points) :
            \A i \in 2..(Len(points[n]) - 1) :
                Len(WorkingPoint(Global, points[n], i)) = i

\* C13: in ORTHOGRAPHIC mode the point set handed to drawing is the rotated
\* point set unchanged; in PERSPECTIVE mode a point with 2 or fewer
\* coordinates is handed to drawing with coordinates 0 and 1 unchanged.
C13_ProjectionIdentityCases ==
    [][HandsToDrawing =>
          /\ Global.PROJECTION = ORTHOGRAPHIC => points' = points
          /\ Global.PROJECTION = PERSPECTIVE =>
                \A n \in 1..Len(points) :
                    Len(points[n]) <= 2 =>
                        \A c \in 1..Len(points[n]) : points'[n][c] = points[n][c]]_vars

\* C13 witness: a square has been rotated by alpha and handed to drawing in
\* perspective mode, its points still those the rotation gave.
C13_Witness ==
    /\ pc = "ready" /\ called
    /\ Global.PROJECTION = PERSPECTIVE
    /\ Global.DIMENSIONS = 2
    /\ Global.SPEED.u = "A"
    /\ Len(points) = 4
    /\ thetas[4].k = 1
    /\ points[4] = <<Rat(-1, 5), Rat(7, 5)>>

\* C14: setup() fails, generates no base vertex set and does not reach the
\* Ready state whenever the configured dimension count is less than 2.
C14_SetupRejectsBadDimension ==
    Global.DIMENSIONS < 2 => (cubePoints = None /\ pc \in {"loaded", "failed"})

\* C15: when setup() has returned, the base vertex set and the adjacency lists
\* (edges, and faces, when displayed) have been generated and cached.
C15_AdjacencyCachedAtSetup ==
    pc = "ready" =>
        /\ cubePoints # None
        /\ DisplayHas(Global, EDGES) => edgesMemo # None
        /\ DisplayHas(Global, FACES) => facesMemo # None

\* C16: starting from a single external draw() call after setup(), no frame
\* callback is pending while a tick runs, exactly one is pending between two
\* ticks, and a callback is registered only by the step that ends a tick,
\* after every point has been transformed, one callback at a time.
C16_OneFramePendingNoOverlap ==
    /\ [](frames = IF pc = "ready" /\ called THEN 1 ELSE 0)
    /\ [][frames' > frames =>
             /\ HandsToDrawing
             /\ Len(points) = Len(cubePoints[1])
             /\ pc' = "ready"
             /\ frames' = frames + 1]_vars

\* C16 witness: a later tick, started by the frame callback of an earlier one
\* (which cached the edges), is transforming points with no callback pending.
C16_Witness ==
    /\ pc = "transform"
    /\ called
    /\ edgesMemo # None
    /\ Len(points) >= 1
    /\ frames = 0

\* C17: when a step of a tick raises an error, the error leaves draw(): that
\* tick registers no next-frame callback, and from then on no tick executes
\* (nothing is transformed or drawn, no callback is registered or run).
C17_ErrorHaltsLoop ==
    /\ [](pc = "failed" => frames = 0)
    /\ [][pc = "failed" =>
             /\ pc' = "failed"
             /\ frames' = frames
             /\ <<points, thetas, fills, strokes, dots>>'
                    = <<points, thetas, fills, strokes, dots>>]_vars

\* C17 witness: draw() has thrown, and the clock has advanced.
C17_Witness ==
    /\ pc = "failed"
    /\ called
    /\ now >= 1
    /\ frames = 0

\* C18: once generated, the cached base vertex set is never changed by a step
\* (same number of points, same order, same coordinates), whatever is rotated,
\* projected or drawn, and the configuration object is never modified.
C18_BaseVerticesImmutable ==
    [][/\ Global' = Global
       /\ cubePoints # None => cubePoints' = cubePoints]_vars

\* C18 witness: a tick has rotated and projected the points of a 3-cube away
\* from the base vertices, which are still those setup generated.
C18_Witness ==
    /\ pc = "ready" /\ called
    /\ Global.DIMENSIONS = 3
    /\ Global.PROJECTION = PERSPECTIVE
    /\ thetas[8].k = 1
    /\ \A n \in 1..8 : points[n] # cubePoints[1][n]
    /\ cubePoints[1] = cubePointsGenerator(3, 2)

\* The n-th rotated point of a run of the pipeline that starts with nothing
\* cached: the vertices and the rotation list are generated anew from the
\* configuration G, and rotated at the angle theta.
FreshRotated(G, theta, n) ==
    transformPoint(G, rotationsGenerator(G.DIMENSIONS), theta,
                   cubePointsGenerator(G.DIMENSIONS, G.SIZE)[n])

\* The same point, projected when G asks for perspective.
FreshProjected(G, theta, n) ==
    IF G.PROJECTION = PERSPECTIVE
    THEN projectionGenerator(G, <<FreshRotated(G, theta, n)>>)[1]
    ELSE FreshRotated(G, theta, n)

\* C19: the point set of a tick depends on the configuration and on the
\* elapsed time only: every point rotated, and then every point handed to
\* drawing, is the one a run of the pipeline with nothing cached gives for the
\* same configuration and elapsed time, whether or not earlier ticks filled
\* the rotation-list and adjacency memos.
C19_PipelineDeterministic ==
    /\ \A n \in 1..Len(points) :
           Yielded(n) => points[n] = FreshRotated(Global, thetas[n], n)
    /\ (pc = "ready" /\ called) =>
           \A n \in 1..Len(points) :
               points[n] = FreshProjected(Global, thetas[n], n)

\* C19 witness: a tick that found the rotation list and the edges cached by an
\* earlier tick has rotated every point of a 3-cube by alpha.
C19_Witness ==
    /\ Yielded(8)
    /\ Global.DIMENSIONS = 3
    /\ transformMemo # None
    /\ edgesMemo # None
    /\ Global.SPEED.u = "A"
    /\ thetas[8].k = 1
    /\ points[8] # cubePoints[1][8]

\* The rows of m are not all of one length.
NotRectangular(m) == \E r1, r2 \in 1..Len(m) : Len(m[r1]) # Len(m[r2])

\* m has no row, or its first row has no element.
Empty(m) == Len(m) = 0 \/ Len(m[1]) = 0

\* C20: Matrix.mul(a, b) throws, and returns no product, whenever a or b is
\* empty, a or b is not rectangular, or the column count of a differs from the
\* row count of b.
C20_MulRejectsBadShapes ==
    result # None =>
        LET a == args[1][1]
            b == args[1][2]
        IN  (\/ Empty(a) \/ Empty(b)
             \/ NotRectangular(a) \/ NotRectangular(b)
             \/ Len(a[1]) # Len(b)) => result[1].threw # "none"

\* The sum of a[i][k'] * b[k'][j] over k' = 1..k, for integer entries.
RECURSIVE SumOfProducts(_, _, _, _, _)
SumOfProducts(a, b, i, j, k) ==
    IF k = 0 THEN 0
    ELSE a[i][k][1] * b[k][j][1] + SumOfProducts(a, b, i, j, k - 1)

\* m has at least one row and one column, and rows of one length.
Rectangular(m) == ~Empty(m) /\ ~NotRectangular(m)

\* C21: for rectangular non-empty integer matrices a (R x K) and b (K x C),
\* Matrix.mul(a, b) returns an R x C matrix whose entry [i][j] is the sum over
\* k of a[i][k] * b[k][j]; the call leaves a and b as they were.
C21_MulIsMatrixProduct ==
    /\ [](result # None =>
            LET a == args[1][1]
                b == args[1][2]
            IN  (Rectangular(a) /\ Rectangular(b) /\ Len(a[1]) = Len(b)) =>
                    /\ result[1].threw = "none"
                    /\ Len(result[1].value) = Len(a)
                    /\ \A i \in 1..Len(a) :
                          /\ Len(result[1].value[i]) = Len(b[1])
                          /\ \A j \in 1..Len(b[1]) :
                                result[1].value[i][j]
                                    = Int2Rat(SumOfProducts(a, b, i, j, Len(b))))
    /\ [][args' = args]_vars

\* C21 witness: [[-1, 0], [0, 2]] times [[-2, -1], [-1, 1]] has returned
\* [[2, 1], [-2, 2]].
C21_Witness ==
    /\ result # None
    /\ args[1][1] = <<<<Int2Rat(-1), Int2Rat(0)>>, <<Int2Rat(0), Int2Rat(2)>>>>
    /\ args[1][2] = <<<<Int2Rat(-2), Int2Rat(-1)>>, <<Int2Rat(-1), Int2Rat(1)>>>>
    /\ result[1].threw = "none"
    /\ result[1].value = <<<<Int2Rat(2), Int2Rat(1)>>, <<Int2Rat(-2), Int2Rat(2)>>>>

\* C26: over any sequence of ticks after setup, the edge generator, the face
\* generator and the rotation-plane generator are each run at most once, and
\* a memoized list, once filled, has the same contents in every later tick.
C26_GeneratorsRunOnce ==
    /\ [](/\ runs.rotations <= 1
          /\ runs.edges <= 1
          /\ runs.faces <= 1)
    /\ [][/\ transformMemo # None => transformMemo' = transformMemo
          /\ edgesMemo # None => edgesMemo' = edgesMemo
          /\ facesMemo # None => facesMemo' = facesMemo]_vars

\* C26 witness: a tick after the first has rotated every vertex of a 4-cube
\* with the rotation list generated once, the edges generated once.
C26_Witness ==
    /\ Yielded(16)
    /\ Global.DIMENSIONS = 4
    /\ runs = [rotations |-> 1, edges |-> 1, faces |-> 0]
    /\ Len(transformMemo[1]) = 6
    /\ Len(edgesMemo[1]) = 64

\* C22: within one tick every base vertex is rotated using the same
\* elapsed-time value, even if the host clock advances while the tick runs.
C22_OneClockReadingPerTick ==
    \A m, n \in 1..Len(thetas) : thetas[m] = thetas[n]

\* C23: the rotation clock measures time since setup(): the reference time
\* subtracted from the clock reading is the time at which setup() ran, so a
\* tick at the instant of setup would use theta_base = 0, however long the
\* module was loaded before.
C23_ClockStartsAtSetup ==
    [][(pc = "loaded" /\ pc' = "ready") =>
          /\ start' = now'
          /\ thetaAt(Global', start', now').k = 0]_vars

\* C24: for every D, D >= 4 included, the first index of every emitted face is
\* the numerically smallest of its four indices (the 4-subsets are walked with
\* i < j < k < l in numeric order and the traversal starts with i).
C24_FirstIndexIsSmallest ==
    facesMemo # None =>
        \A n \in 1..Len(facesMemo[1]) :
            LET face == facesMemo[1][n]
            IN  Len(face) = 4 => \A m \in 1..4 : face[1] <= face[m]

\* C25: for every D from 2 to 5 the rotate-and-retry ordering loop ends for
\* every 4-subset that passes the shared-coordinate test, with all 4 indices
\* placed: draw never sticks in faceGenerator, and each of the
\* D(D-1)/2 * 2^(D-2) subsets that pass the test is emitted with its 4 indices.
C25_OrderingLoopTerminates ==
    /\ Global.DIMENSIONS \in 2..5 /\ DisplayHas(Global, FACES) => pc # "hung"
    /\ facesMemo # None /\ Global.DIMENSIONS \in 2..5 =>
        LET faces == facesMemo[1]
            D == Global.DIMENSIONS
        IN  /\ Len(faces) = ((D * (D - 1)) \div 2) * 2 ^ (D - 2)
            /\ \A n \in 1..Len(faces) :
                  /\ faces[n] # <<>>
                  /\ Cardinality(Range(faces[n])) = 4

\* C25 witness: a frame of the 5-cube has been drawn with its 80 faces, among
\* them faces whose ordering needed a rotation of the remaining candidates
\* (the keys j, k, l are not placed in loop order).
C25_Witness ==
    /\ pc = "ready"
    /\ frames >= 1
    /\ Global.DIMENSIONS = 5
    /\ facesMemo # None
    /\ \E n \in 1..Len(facesMemo[1]) :
          LET face == facesMemo[1][n]
          IN  /\ Len(face) = 4
              /\ KeyGE(face[3], face[4])

\* The canvas of pixel ratio `ratio` fitted to the window win: width by height
\* CSS pixels of ratio bitmap pixels each, the origin at its centre.
FittedTo(win, ratio) ==
    [ratio |-> ratio,
     width |-> win.innerWidth * ratio,
     height |-> win.innerHeight * ratio,
     styleWidth |-> win.innerWidth,
     styleHeight |-> win.innerHeight,
     transform |-> [a |-> Int2Rat(ratio), d |-> Int2Rat(ratio),
                    e |-> Rat(ratio * win.innerWidth, 2),
                    f |-> Rat(ratio * win.innerHeight, 2)]]

\* A step taken between two ticks that is neither a tick nor the clock.
BetweenTicks == pc' = pc /\ now' = now /\ pc # "transform"

\* C27: a window resize handled between two ticks changes only the drawing
\* surface, never the base vertices, the adjacency caches or the rotation
\* list; the surface it leaves depends on the window size alone (pixel
\* dimensions and origin-centring transform), so handling the same size twice
\* leaves it as handling it once.
C27_ResizeOnlyReconfiguresSurface ==
    /\ [](surface # None => surface[1] = FittedTo(window, surface[1].ratio))
    /\ [][BetweenTicks =>
            /\ UNCHANGED <<Global, cubePoints, transformMemo, edgesMemo,
                           facesMemo, start, runs>>
            /\ surface # None /\ window' = window => surface' = surface]_vars

\* C27 witness: after a frame was drawn (the caches and the rotation list are
\* filled) a resize has been handled, which cleared the frame, and the surface
\* is fitted to a window of two bitmap pixels per CSS pixel.
C27_Witness ==
    /\ pc = "ready"
    /\ frames >= 1
    /\ edgesMemo # None
    /\ transformMemo # None
    /\ dots = <<>>
    /\ surface # None
    /\ surface[1].ratio = 2
    /\ surface[1] = FittedTo(window, 2)

====
